---------------------------- MODULE Spec2Model ----------------------------
(***************************************************************************)
(* A model of s2mLab/trampoline_analysis: the series container (Data), the *)
(* CoP derived-signal engine with its event segmenter (CoPData), the       *)
(* force-derived series (ForceSensorData) and the concatenation of trials. *)
(*                                                                         *)
(* Python objects live in an object store (obj) whose array attributes are *)
(* references into an array store (arr), so that attribute rebinding       *)
(* (self.t = np.concatenate(...)) and sharing (self.t = data.t) are told   *)
(* apart.  Floats are exact rationals; NaN and the infinities are values.  *)
(***************************************************************************)
EXTENDS Integers, Sequences, FiniteSets, TLC

VARIABLES
    arr,      \* array store: id -> numpy array [shape, data]
    obj,      \* object store: name -> instance attributes
    exc,      \* the exception the last call raised, or "none"
    fed,      \* per series: the raw rows whose append returned normally
    env,      \* the local variables of concatenate_data
    call      \* the last call made, or "none"

vars == <<arr, obj, exc, fed, env, call>>


(***************************************************************************)
(* Bounds of the model.                                                    *)
(***************************************************************************)
MaxRows == 3          \* rows appended to one plain series
MaxGapLen == 9        \* samples of a gap signal handed to the segmenter
MaxTrialLen == 7      \* rows of one CoP trial file
MaxShortLen == 2      \* rows of one file read as a plain or a force series
MaxSamples == 5       \* rows handed to _derivative and _integral
MaxRecordingLen == 13 \* lines of one CoP recording built into a series
MaxTrials == 3        \* trials folded by concatenate_data
MaxResultAppends == 1 \* rows appended to a concatenation result

(***************************************************************************)
(* Program constants.                                                      *)
(***************************************************************************)
MAX_INT == 2147483647     \* the invalid-reading sentinel of Data.append
ForceThreshold == 20      \* ForceSensorData: sums below it are "no contact"
CoPWindow == 2            \* the window CoPData.__init__ passes
CoPSensors == 2           \* nb_sensors of read_cycl_data

(***************************************************************************)
(* Floats.  A float is NaN, or the rational num/den in lowest terms with   *)
(* den > 0, or an infinity (den = 0, num = +-1).                           *)
(***************************************************************************)
NaN == [nan |-> TRUE, num |-> 0, den |-> 1]

Abs(x) == IF x < 0 THEN -x ELSE x

RECURSIVE Gcd(_, _)
Gcd(a, b) == IF b = 0 THEN a ELSE Gcd(b, a % b)

Sign(x) == IF x < 0 THEN -1 ELSE IF x > 0 THEN 1 ELSE 0

\* n/d as a float; x/0 is +-inf and 0/0 is NaN, as numpy computes them.
Frac(n, d) ==
    IF d = 0 THEN (IF n = 0 THEN NaN ELSE [nan |-> FALSE, num |-> Sign(n), den |-> 0])
    ELSE LET g == Gcd(Abs(n), Abs(d))
             s == IF d < 0 THEN -1 ELSE 1
         IN  [nan |-> FALSE, num |-> (s * n) \div g, den |-> (s * d) \div g]

Num(x) == [nan |-> FALSE, num |-> x, den |-> 1]

isnan(x) == x.nan

IsInf(x) == ~x.nan /\ x.den = 0

FAdd(a, b) ==
    IF a.nan \/ b.nan THEN NaN
    ELSE IF IsInf(a) /\ IsInf(b) THEN (IF a.num = b.num THEN a ELSE NaN)
    ELSE IF IsInf(a) THEN a
    ELSE IF IsInf(b) THEN b
    ELSE Frac(a.num * b.den + b.num * a.den, a.den * b.den)

FNeg(a) == IF a.nan THEN NaN ELSE [a EXCEPT !.num = -a.num]

FSub(a, b) == FAdd(a, FNeg(b))

FMul(a, b) ==
    IF a.nan \/ b.nan THEN NaN
    ELSE IF IsInf(a) \/ IsInf(b)
         THEN Frac(Sign(a.num) * Sign(b.num), 0)
    ELSE Frac(a.num * b.num, a.den * b.den)

FDiv(a, b) ==
    IF a.nan \/ b.nan THEN NaN
    ELSE IF IsInf(a) /\ IsInf(b) THEN NaN
    ELSE IF IsInf(a) THEN Frac(Sign(a.num) * (IF b.num < 0 THEN -1 ELSE 1), 0)
    ELSE IF IsInf(b) THEN Num(0)
    ELSE Frac(a.num * b.den, a.den * b.num)

\* a < b on floats; every comparison with NaN is False.
FLess(a, b) ==
    /\ ~a.nan
    /\ ~b.nan
    /\ IF IsInf(a) /\ IsInf(b) THEN a.num < b.num
       ELSE IF IsInf(a) THEN a.num < 0
       ELSE IF IsInf(b) THEN b.num > 0
       ELSE a.num * b.den < b.num * a.den

\* The integer square root (floor).
ISqrt(n) == CHOOSE r \in 0..n : r * r <= n /\ (r + 1) * (r + 1) > n

\* sqrt of a non-negative float, exact on the squares of rationals and rounded
\* down to the grid 1/den otherwise.
FSqrt(a) ==
    IF a.nan THEN NaN
    ELSE IF IsInf(a) THEN a
    ELSE Frac(ISqrt(a.num * a.den), a.den)

(***************************************************************************)
(* Sequences.                                                              *)
(***************************************************************************)
\* F(v) with v evaluated once: how the statements of a method are chained.
Bind(v, F(_)) == CHOOSE r \in {F(w) : w \in {v}} : TRUE

\* Python's s[lo:hi] for 0 <= lo, on a 0-based sequence.
Slice(s, lo, hi) ==
    LET h == IF hi > Len(s) THEN Len(s) ELSE hi
    IN  IF lo >= h THEN << >> ELSE [i \in 1..(h - lo) |-> s[lo + i]]

\* Python's s[:-k]; s[:-0] is s[:0], the empty sequence.
DropLast(s, k) == IF k = 0 THEN << >> ELSE Slice(s, 0, Len(s) - k)

\* Python's s[k:].
DropFirst(s, k) == Slice(s, k, Len(s))

RECURSIVE SeqsUpTo(_, _)
\* Every sequence over S of length at most n.
SeqsUpTo(S, n) ==
    IF n = 0 THEN {<< >>}
    ELSE LET shorter == SeqsUpTo(S, n - 1)
         IN  shorter \cup {Append(s, x) : s \in {q \in shorter : Len(q) = n - 1}, x \in S}

(***************************************************************************)
(* numpy arrays: [shape, data]; data holds the elements of a 1-D array, or *)
(* the rows of a 2-D one.                                                  *)
(***************************************************************************)
Arr1(s) == [shape |-> <<Len(s)>>, data |-> s]

Arr2(rows, ncols) == [shape |-> <<Len(rows), ncols>>, data |-> rows]

\* np.ndarray((0,)) and np.ndarray((0, n)).
EmptyArr1 == Arr1(<< >>)

EmptyArr2(ncols) == Arr2(<< >>, ncols)

NRows(a) == a.shape[1]

\* np.concatenate((a, b)) along axis 0 raises ValueError unless the arrays
\* have the same number of dimensions and agree on every other axis.
CanConcatenate(a, b) ==
    /\ Len(a.shape) = Len(b.shape)
    /\ Len(a.shape) = 2 => a.shape[2] = b.shape[2]

np_concatenate(a, b) ==
    [shape |-> [a.shape EXCEPT ![1] = a.shape[1] + b.shape[1]],
     data |-> a.data \o b.data]

(***************************************************************************)
(* The stores.  A machine state m is [arr, obj, exc].  A new array takes   *)
(* the least free id; arrays no object refers to are freed after a call.   *)
(***************************************************************************)
RefFields ==
    {"t", "y", "displacement", "velocity", "acceleration",
     "takeoffs_indices", "landings_indices"}

Refs(o) == {o[f] : f \in RefFields \cap DOMAIN o}

FreeId(a) == CHOOSE i \in 1..(Cardinality(DOMAIN a) + 1) :
                 /\ i \notin DOMAIN a
                 /\ \A j \in 1..(i - 1) : j \in DOMAIN a

\* m with `value` stored in a new array that attribute `f` of object `o` names.
SetAttr(m, o, f, value) ==
    LET id == FreeId(m.arr)
    IN  [m EXCEPT !.arr = [i \in DOMAIN m.arr \cup {id} |->
                              IF i = id THEN value ELSE m.arr[i]],
                  !.obj = [@ EXCEPT ![o] =
                              [g \in DOMAIN @ \cup {f} |-> IF g = f THEN id ELSE @[g]]]]

\* The array attribute `f` of object `o` names.
Get(m, o, f) == m.arr[m.obj[o][f]]

Raise(m, e) == [m EXCEPT !.exc = e]

\* m without the objects in `dead` and without the arrays nothing refers to.
Collect(m, dead) ==
    LET live == [o \in DOMAIN m.obj \ dead |-> m.obj[o]]
        used == UNION {Refs(live[o]) : o \in DOMAIN live}
    IN  [m EXCEPT !.obj = live, !.arr = [i \in DOMAIN m.arr \cap used |-> m.arr[i]]]

Machine == [arr |-> arr, obj |-> obj, exc |-> "none"]

\* What an observer reads from object o: its attributes with arrays resolved.
View(m, o) ==
    [f \in DOMAIN m.obj[o] |->
        IF f \in RefFields THEN m.arr[m.obj[o][f]] ELSE m.obj[o][f]]

(***************************************************************************)
(* class Data                                                              *)
(***************************************************************************)
\* The conversion factors the readers pass: the default 1, and 1/1000.
ConversionFactors == {Num(1), Frac(1, 1000)}

\* A new instance `o` of class `cls` with no attribute yet.
NewObject(m, o, cls) ==
    [m EXCEPT !.obj = [p \in DOMAIN @ \cup {o} |->
                          IF p = o THEN [cls |-> cls] ELSE @[p]]]

\* self.<f> = value, for a value that is no new array: a number, or an array
\* another attribute names already (the two then share it).
SetField(m, o, f, value) ==
    [m EXCEPT !.obj = [@ EXCEPT ![o] =
                          [g \in DOMAIN @ \cup {f} |-> IF g = f THEN value ELSE @[g]]]]

\* Data.__init__(self, data=None, nb_sensors, conversion_factor) with no data.
DataInitEmpty(m, o, nb_sensors, conversion_factor) ==
    SetField(SetAttr(SetAttr(m, o, "t", EmptyArr1), o, "y", EmptyArr2(nb_sensors)),
             o, "conversion_factor", conversion_factor)

\* Data.__init__(self, data=data): t and y are data's own arrays, not copies.
DataInitFrom(m, o, data) ==
    SetField(SetField(SetField(m, o, "t", m.obj[data].t), o, "y", m.obj[data].y),
             o, "conversion_factor", m.obj[data].conversion_factor)

\* A mutant of Convert: the sentinel is tested after the conversion.
ConvertAfterScaling(data, conversion_factor) ==
    IF FMul(Num(data), conversion_factor) # Num(MAX_INT)
    THEN FMul(Num(data), conversion_factor)
    ELSE NaN

\* data * self.conversion_factor if data != 2147483647 else np.nan
Convert(data, conversion_factor) ==
    IF data # MAX_INT THEN FMul(Num(data), conversion_factor) ELSE NaN

\* Data.append(self, t, y).  self.t is rebound before y is looked at, so the
\* ValueError np.concatenate raises on a row of another width leaves the new
\* timestamp in place.
DataAppend(m, o, t, y) ==
    Bind(SetAttr(m, o, "t", np_concatenate(Get(m, o, "t"), Arr1(<<Num(t)>>))),
         LAMBDA m1 :
    Bind(Arr2(<<[i \in 1..Len(y) |-> Convert(y[i], m.obj[o].conversion_factor)]>>,
              Len(y)),
         LAMBDA row :
        IF CanConcatenate(Get(m1, o, "y"), row)
        THEN SetAttr(m1, o, "y", np_concatenate(Get(m1, o, "y"), row))
        ELSE Raise(m1, "ValueError")))

(***************************************************************************)
(* Ingestion: one series D, created empty and fed by append.  The caller   *)
(* keeps timestamps strictly increasing; rows are one or two values wide,  *)
(* so that some appends are rejected.                                      *)
(***************************************************************************)
RawValues == {1000, 3000, MAX_INT}

Widths == {1, 2}

RawRows == SeqsUpTo(RawValues, 2) \ {<< >>}

NoObjects == [arr |-> << >>, obj |-> << >>, exc |-> "none"]

\* The timestamps a caller may pass next to a series whose time vector is tv.
NextTimes(tv) ==
    IF Len(tv.data) = 0 THEN {0, 1} ELSE {tv.data[Len(tv.data)].num + 1}

\* The stores after a call that left m.
Install(m) ==
    /\ arr' = m.arr
    /\ obj' = m.obj
    /\ exc' = m.exc

Init ==
    \E nb_sensors \in Widths, conversion_factor \in ConversionFactors :
        \E m \in {DataInitEmpty(NewObject(NoObjects, "D", "Data"), "D",
                                 nb_sensors, conversion_factor)} :
            /\ arr = m.arr
            /\ obj = m.obj
            /\ exc = "none"
            /\ fed = [o \in {"D"} |-> << >>]
            /\ env = << >>
            /\ call = "none"

\* D.append(t, y)
AppendRow ==
    /\ NRows(Get(Machine, "D", "t")) < MaxRows
    /\ \E t \in NextTimes(Get(Machine, "D", "t")), y \in RawRows :
          \E m \in {Collect(DataAppend(Machine, "D", t, y), {})} :
              /\ Install(m)
              /\ fed' = IF m.exc = "none"
                        THEN [fed EXCEPT !["D"] = Append(@, y)]
                        ELSE fed
    /\ env' = env
    /\ call' = "append"

Next == AppendRow

Spec == Init /\ [][Next]_vars

(***************************************************************************)
(* The event segmenter, CoPData._compute_timings_indices.  Indices are     *)
(* numpy's: 0-based.                                                       *)
(***************************************************************************)
\* currently_in_air = 1 * np.isnan(self.displacement)
CurrentlyInAir(displacement) ==
    [i \in 1..Len(displacement.data) |->
        [j \in 1..Len(displacement.data[i]) |->
            IF isnan(displacement.data[i][j]) THEN 1 ELSE 0]]

\* later - earlier, row by row.
RowsMinus(later, earlier) ==
    [i \in 1..Len(later) |-> [j \in 1..Len(later[i]) |-> later[i][j] - earlier[i][j]]]

\* events[:2] = 0
ZeroFirstTwo(events) ==
    [i \in 1..Len(events) |->
        IF i <= 2 THEN [j \in 1..Len(events[i]) |-> 0] ELSE events[i]]

\* events = np.concatenate((padding, currently_in_air[1:] - currently_in_air[:-1]))
\* events[:2] = 0
\* The padding row is there even when the signal has no sample.
Events(displacement) ==
    Bind(CurrentlyInAir(displacement), LAMBDA currently_in_air :
        ZeroFirstTwo(<<(<<0>>)>> \o RowsMinus(DropFirst(currently_in_air, 1),
                                             DropLast(currently_in_air, 1))))

RECURSIVE Where(_, _, _)
\* np.where(events == v)[0], from row i on: the row index of every match.
Where(events, v, i) ==
    IF i > Len(events) THEN << >>
    ELSE [k \in 1..Cardinality({j \in 1..Len(events[i]) : events[i][j] = v}) |-> i - 1]
             \o Where(events, v, i + 1)

\* landings_indices = landings_indices[1:], when the first landing precedes
\* the first takeoff.
TrimLeadingLanding(takeoffs, landings) ==
    IF landings[1] < takeoffs[1] THEN DropFirst(landings, 1) ELSE landings

\* A mutant of TrimTrailingTakeoff: the slice drops the wrong end.
TrimFirstTakeoff(takeoffs, landings) ==
    IF takeoffs[Len(takeoffs)] > landings[Len(landings)]
    THEN DropFirst(takeoffs, 1)
    ELSE takeoffs

\* takeoffs_indices = takeoffs_indices[:-1], when the last takeoff follows
\* the last landing.
TrimTrailingTakeoff(takeoffs, landings) ==
    IF takeoffs[Len(takeoffs)] > landings[Len(landings)]
    THEN DropLast(takeoffs, 1)
    ELSE takeoffs

\* What _compute_timings_indices hands back: the exception it raised, or
\* "none" and the two lists.
Timings(e, takeoffs, landings) == [exc |-> e, takeoffs |-> takeoffs, landings |-> landings]

\* The sanity check on the trimmed lists, and the return.
CheckedTimings(takeoffs, landings) ==
    IF Len(takeoffs) # Len(landings)
    THEN Timings("RuntimeError", << >>, << >>)
    ELSE Timings("none", takeoffs, landings)

\* CoPData._compute_timings_indices(self).  Indexing an empty list raises
\* IndexError: landings_indices[0] and takeoffs_indices[0] in the first test,
\* landings_indices[-1] in the second.
ComputeTimingsIndices(displacement) ==
    Bind(Events(displacement), LAMBDA events :
    Bind(Where(events, -1, 1), LAMBDA landings0 :
    Bind(Where(events, 1, 1), LAMBDA takeoffs :
        IF Len(landings0) = 0 \/ Len(takeoffs) = 0
        THEN Timings("IndexError", << >>, << >>)
        ELSE Bind(TrimLeadingLanding(takeoffs, landings0), LAMBDA landings :
                 IF Len(landings) = 0
                 THEN Timings("IndexError", << >>, << >>)
                 ELSE CheckedTimings(TrimTrailingTakeoff(takeoffs, landings),
                                     landings)))))

\* self.takeoffs_indices, self.landings_indices = self._compute_timings_indices()
Segment(m, o) ==
    Bind(ComputeTimingsIndices(Get(m, o, "displacement")), LAMBDA r :
        IF r.exc # "none" THEN Raise(m, r.exc)
        ELSE SetAttr(SetAttr(m, o, "takeoffs_indices", Arr1(r.takeoffs)),
                     o, "landings_indices", Arr1(r.landings)))

\* The flights zip() pairs: as many as the shorter list holds.
NFlights(takeoffs, landings) ==
    IF Len(takeoffs) < Len(landings) THEN Len(takeoffs) ELSE Len(landings)

\* CoPData.flight_times
flight_times(m, o) ==
    [k \in 1..NFlights(Get(m, o, "takeoffs_indices").data,
                       Get(m, o, "landings_indices").data) |->
        FSub(Get(m, o, "t").data[Get(m, o, "landings_indices").data[k] + 1],
             Get(m, o, "t").data[Get(m, o, "takeoffs_indices").data[k] + 1])]

(***************************************************************************)
(* The segmenter on every gap signal: a series S holding a one-column      *)
(* signal of NaN and valid samples over evenly spaced timestamps.          *)
(***************************************************************************)
GapSamples == {NaN, Num(1)}

GapSignals == SeqsUpTo(GapSamples, MaxGapLen)

\* n timestamps from `first` on, one time unit apart.
Timestamps(n, first) == [i \in 1..n |-> Num(first + i - 1)]

InitSeg ==
    \E signal \in GapSignals, first \in {0, 1} :
        \E m \in {SetAttr(SetAttr(NewObject(NoObjects, "S", "CoPData"), "S", "t",
                                  Arr1(Timestamps(Len(signal), first))),
                          "S", "displacement",
                          Arr2([i \in 1..Len(signal) |-> <<signal[i]>>], 1))} :
            /\ arr = m.arr
            /\ obj = m.obj
            /\ exc = "none"
            /\ fed = << >>
            /\ env = << >>
            /\ call = "none"

\* S.takeoffs_indices, S.landings_indices = S._compute_timings_indices()
SegmentSignal ==
    /\ call = "none"
    /\ "S" \in DOMAIN obj
    /\ Install(Collect(Segment(Machine, "S"), {}))
    /\ fed' = fed
    /\ env' = env
    /\ call' = "_compute_timings_indices"

NextSeg == SegmentSignal

SpecSeg == InitSeg /\ [][NextSeg]_vars

(***************************************************************************)
(* The numeric helper _derivative and the CoP derived signals.             *)
(***************************************************************************)
\* np.nan * np.zeros((n, ncols))
NaNRows(n, ncols) == [i \in 1..n |-> [j \in 1..ncols |-> NaN]]

\* A mutant of Quotient: the difference of the data is taken forward in time
\* (tail - head) while the difference of the times still runs backward.
QuotientForward(head, tail, t_head, t_tail, ncols) ==
    [i \in 1..(IF Len(head) = 1 THEN Len(t_head) ELSE Len(head)) |->
        [j \in 1..ncols |->
            FDiv(FSub(tail[IF Len(head) = 1 THEN 1 ELSE i][j],
                      head[IF Len(head) = 1 THEN 1 ELSE i][j]),
                 FSub(t_head[IF Len(t_head) = 1 THEN 1 ELSE i],
                      t_tail[IF Len(t_head) = 1 THEN 1 ELSE i]))]]

\* (head - tail) / (t_head - t_tail)[:, np.newaxis]: the time differences
\* broadcast over the columns, and an operand of one row over the rows of the
\* other.
Quotient(head, tail, t_head, t_tail, ncols) ==
    [i \in 1..(IF Len(head) = 1 THEN Len(t_head) ELSE Len(head)) |->
        [j \in 1..ncols |->
            FDiv(FSub(head[IF Len(head) = 1 THEN 1 ELSE i][j],
                      tail[IF Len(head) = 1 THEN 1 ELSE i][j]),
                 FSub(t_head[IF Len(t_head) = 1 THEN 1 ELSE i],
                      t_tail[IF Len(t_head) = 1 THEN 1 ELSE i]))]]

\* The padded quotient; numpy raises ValueError when the two operands have
\* different row counts, neither of them 1.
PaddedQuotient(head, tail, t_head, t_tail, window, ncols) ==
    IF Len(head) # Len(t_head) /\ Len(head) # 1 /\ Len(t_head) # 1
    THEN [exc |-> "ValueError", value |-> EmptyArr2(ncols)]
    ELSE [exc |-> "none",
          value |-> Arr2(NaNRows(window, ncols)
                             \o Quotient(head, tail, t_head, t_tail, ncols)
                             \o NaNRows(window, ncols),
                         ncols)]

\* _derivative(t, data, window): [exc, value].
Derivative(t, data, window) ==
    PaddedQuotient(DropLast(data.data, window * 2), DropFirst(data.data, window * 2),
                   DropLast(t.data, window * 2), DropFirst(t.data, window * 2),
                   window, data.shape[2])

RECURSIVE SumSquares(_, _)
SumSquares(row, i) ==
    IF i > Len(row) THEN Num(0)
    ELSE FAdd(FMul(row[i], row[i]), SumSquares(row, i + 1))

\* np.linalg.norm(row): the Euclidean norm of one row.
Norm(row) == FSqrt(SumSquares(row, 1))

\* np.linalg.norm(later - earlier, axis=1)[:, np.newaxis]
Moved(later, earlier) ==
    [i \in 1..Len(later) |->
        <<Norm([j \in 1..Len(later[i]) |-> FSub(later[i][j], earlier[i][j])])>>]

\* CoPData._compute_cop_displacement(self, window)
ComputeCopDisplacement(y, window) ==
    Arr2(NaNRows(window, 1)
             \o Moved(DropFirst(y.data, window * 2), DropLast(y.data, window * 2))
             \o NaNRows(window, 1),
         1)

\* self.<f> = _derivative(self.t, self.<of>, window=2)
SetDerivative(m, o, f, of) ==
    Bind(Derivative(Get(m, o, "t"), Get(m, o, of), CoPWindow), LAMBDA d :
        IF d.exc # "none" THEN Raise(m, d.exc) ELSE SetAttr(m, o, f, d.value))

\* Run the next statement unless an exception is already on its way out.
Then(m, F(_)) == Bind(m, LAMBDA m1 : IF m1.exc # "none" THEN m1 ELSE F(m1))

\* CoPData.__init__(self, data) of cop_data.py, and the first four statements
\* of the one of data.py: the base attributes are data's own arrays; the
\* derived signals are new arrays.
CoPSignalsInit(m, o, data) ==
    Then(DataInitFrom(NewObject(m, o, "CoPData"), o, data), LAMBDA m1 :
    Then(SetAttr(m1, o, "displacement",
                 ComputeCopDisplacement(Get(m1, o, "y"), CoPWindow)), LAMBDA m2 :
    Then(SetDerivative(m2, o, "velocity", "displacement"), LAMBDA m3 :
        SetDerivative(m3, o, "acceleration", "velocity"))))

\* CoPData.__init__(self, data) of data.py: the derived signals, then the
\* event lists.
CoPDataInit(m, o, data) ==
    Then(CoPSignalsInit(m, o, data), LAMBDA m4 : Segment(m4, o))

(***************************************************************************)
(* class ForceSensorData                                                   *)
(***************************************************************************)
RECURSIVE SumRow(_, _)
SumRow(row, i) == IF i > Len(row) THEN Num(0) ELSE FAdd(row[i], SumRow(row, i + 1))

\* One entry of the summed force: data.y[data.y < 20] = np.nan
Thresholded(total) == IF FLess(total, Num(ForceThreshold)) THEN NaN ELSE total

\* np.sum(data.y, axis=1)[:, np.newaxis], then data.y[data.y < 20] = np.nan
SummedForce(y) ==
    Arr2([i \in 1..Len(y.data) |-> <<Thresholded(SumRow(y.data[i], 1))>>], 1)

\* ForceSensorData.__init__(self, data): data.y is rebound on the object the
\* caller passed, and self shares it.
ForceSensorDataInit(m, o, data) ==
    Bind(SetAttr(m, data, "y", SummedForce(Get(m, data, "y"))), LAMBDA m1 :
        DataInitFrom(NewObject(m1, o, "ForceSensorData"), o, data))

(***************************************************************************)
(* concatenate                                                             *)
(***************************************************************************)
\* time_offset + other.t
Shifted(t, time_offset) ==
    [t EXCEPT !.data = [i \in 1..Len(@) |-> FAdd(time_offset, @[i])]]

\* out.y = np.concatenate((out.y, other.y))
JoinRows(m, other, out) ==
    IF CanConcatenate(Get(m, out, "y"), Get(m, other, "y"))
    THEN SetAttr(m, out, "y", np_concatenate(Get(m, out, "y"), Get(m, other, "y")))
    ELSE Raise(m, "ValueError")

\* time_offset = out.t[-1]
LastTime(m, out) == Get(m, out, "t").data[NRows(Get(m, out, "t"))]

\* A mutant of DataConcatenate: the offset is added to other.t in place
\* (other.t += time_offset) before the two time vectors are joined.
DataConcatenateShiftingOther(m, self, other, out) ==
    Bind(DataInitFrom(NewObject(m, out, "Data"), out, self), LAMBDA m1 :
        IF NRows(Get(m1, out, "t")) = 0 THEN Raise(m1, "IndexError")
        ELSE Bind([m1 EXCEPT !.arr[m1.obj[other].t] =
                                 Shifted(Get(m1, other, "t"), LastTime(m1, out))],
                  LAMBDA m2 :
                 Bind(SetAttr(m2, out, "t",
                              np_concatenate(Get(m2, out, "t"), Get(m2, other, "t"))),
                      LAMBDA m3 : JoinRows(m3, other, out))))

\* A mutant of DataConcatenate: other.t is joined without the offset.
DataConcatenateNoOffset(m, self, other, out) ==
    Bind(DataInitFrom(NewObject(m, out, "Data"), out, self), LAMBDA m1 :
        IF NRows(Get(m1, out, "t")) = 0 THEN Raise(m1, "IndexError")
        ELSE Bind(SetAttr(m1, out, "t",
                          np_concatenate(Get(m1, out, "t"), Get(m1, other, "t"))),
                  LAMBDA m2 : JoinRows(m2, other, out)))

\* Data.concatenate(self, other): out starts as a Data sharing self's arrays,
\* out.t[-1] raises IndexError on an empty self, and out.t and out.y are then
\* rebound to new arrays.
DataConcatenate(m, self, other, out) ==
    Bind(DataInitFrom(NewObject(m, out, "Data"), out, self), LAMBDA m1 :
        IF NRows(Get(m1, out, "t")) = 0 THEN Raise(m1, "IndexError")
        ELSE Bind(SetAttr(m1, out, "t",
                          np_concatenate(Get(m1, out, "t"),
                                         Shifted(Get(m1, other, "t"), LastTime(m1, out)))),
                  LAMBDA m2 : JoinRows(m2, other, out)))

\* indices[0 : n] followed by indices[n + 1 :]
DropIndexAt(indices, n) ==
    Arr1(Slice(indices.data, 0, n) \o DropFirst(indices.data, n + 1))

\* out.<f> = np.concatenate((out.<f>[0 : len(self.<f>)], out.<f>[len(self.<f>) + 1 :]))
DropJunction(m, self, out, f) ==
    SetAttr(m, out, f, DropIndexAt(Get(m, out, f), NRows(Get(m, self, f))))

\* CoPData.concatenate(self, other): the events are recomputed on the joined
\* series, then the entry at position len(self's list) is cut out of each
\* list.
CoPDataConcatenate(m, self, other, out) ==
    Then(DataConcatenate(m, self, other, "super"), LAMBDA m1 :
    Then(CoPDataInit(m1, out, "super"), LAMBDA m2 :
    Then(DropJunction(m2, self, out, "takeoffs_indices"), LAMBDA m3 :
        DropJunction(m3, self, out, "landings_indices"))))

\* ForceSensorData.concatenate(self, other)
ForceSensorDataConcatenate(m, self, other, out) ==
    Then(DataConcatenate(m, self, other, "super"), LAMBDA m1 :
        ForceSensorDataInit(m1, out, "super"))

\* self.concatenate(other), by the class of self.
ConcatenateByClass(m, self, other, out) ==
    CASE m.obj[self].cls = "CoPData" -> CoPDataConcatenate(m, self, other, out)
      [] m.obj[self].cls = "ForceSensorData" ->
             ForceSensorDataConcatenate(m, self, other, out)
      [] OTHER -> DataConcatenate(m, self, other, out)

\* out = self.concatenate(other).  The object the base method returned and,
\* on an exception, the unfinished result are dropped.
Concatenate(m, self, other, out) ==
    Bind(ConcatenateByClass(m, self, other, out), LAMBDA r :
        Collect(r, IF r.exc # "none" THEN {"super", out} ELSE {"super"}))

(***************************************************************************)
(* class DataReader.  A file is the sequence of its data lines, each a     *)
(* timestamp and the readings after it; nb_sensors is <<n>>, or << >> for  *)
(* None.                                                                   *)
(***************************************************************************)
\* if out is None: nb_sensors = len(row[1:]); out = Data(nb_sensors, conversion_factor)
EnsureSeries(m, o, row, conversion_factor) ==
    IF o \in DOMAIN m.obj THEN m
    ELSE DataInitEmpty(NewObject(m, o, "Data"), o, Len(row), conversion_factor)

\* out.append(float(row[0]), [float(i) for i in row[1:nb_sensors + 1]])
AppendLine(m, o, line) ==
    DataAppend(m, o, line.t, Slice(line.row, 0, Get(m, o, "y").shape[2]))

RECURSIVE ReadRows(_, _, _, _, _)
\* The loop of DataReader._read_csv from line i of the file on: without
\* nb_sensors the first line gives the width and creates the series; each
\* line is cut to the width and appended.
ReadRows(m, o, file, i, conversion_factor) ==
    IF i > Len(file) THEN m
    ELSE Then(EnsureSeries(m, o, file[i].row, conversion_factor), LAMBDA m1 :
         Then(AppendLine(m1, o, file[i]), LAMBDA m2 :
             ReadRows(m2, o, file, i + 1, conversion_factor)))

\* DataReader._read_csv(filepath, nb_sensors, conversion_factor); without
\* nb_sensors an empty file gives None: no object o.
ReadCsv(m, o, file, nb_sensors, conversion_factor) ==
    ReadRows(IF Len(nb_sensors) = 0 THEN m
             ELSE DataInitEmpty(NewObject(m, o, "Data"), o, nb_sensors[1],
                                conversion_factor),
             o, file, 1, conversion_factor)

\* DataReader._read_csv(filepath, nb_sensors=2, conversion_factor=1/1000),
\* the series read_cycl_data wraps.
ReadCyclSeries(m, o, file) == ReadCsv(m, o, file, <<CoPSensors>>, Frac(1, 1000))

\* DataReader.read_cycl_data(filepath)
ReadCyclData(m, o, file) ==
    Then(ReadCyclSeries(m, "csv", file), LAMBDA m1 : CoPDataInit(m1, o, "csv"))

\* DataReader.read_sensor_data(filepath)
ReadSensorData(m, o, file) == ReadCsv(m, o, file, << >>, Num(1))

\* ForceSensorData(DataReader.read_sensor_data(filepath)); None has no y.
ReadForceData(m, o, file) ==
    Then(ReadSensorData(m, "csv", file), LAMBDA m1 :
        IF "csv" \notin DOMAIN m1.obj THEN Raise(m1, "AttributeError")
        ELSE ForceSensorDataInit(m1, o, "csv"))

\* The classes a trial is read as.
Kinds == {"Data", "CoPData", "ForceSensorData"}

\* <reader>(file), by the kind of trial.
ReadByKind(m, o, kind, file) ==
    CASE kind = "CoPData" -> ReadCyclData(m, o, file)
      [] kind = "ForceSensorData" -> ReadForceData(m, o, file)
      [] OTHER -> ReadCyclSeries(m, o, file)

\* o = <reader>(file).  What the call leaves behind on an exception is
\* dropped with the reader's local series.
ReadTrialAs(m, o, kind, file) ==
    Bind(ReadByKind(m, o, kind, file), LAMBDA r :
        Collect(r, IF r.exc # "none" THEN {"csv", o} ELSE {"csv"}))

(***************************************************************************)
(* The files the readers are given.  A CYCL line holds a position, or the  *)
(* sentinel twice while the subject is in the air; a sensor line holds two *)
(* forces.  Lines are one time unit apart.                                 *)
(***************************************************************************)
CyclRows == {<<MAX_INT, MAX_INT>>, <<3000, 4000>>}

SensorRows == {<<5, 5>>, <<5, 15>>, <<15, MAX_INT>>}

FileOf(rows, first) == [i \in 1..Len(rows) |-> [t |-> first + i - 1, row |-> rows[i]]]

\* Positions recorded over a whole trial, from time 0 on.
CyclFiles == {FileOf(rows, 0) : rows \in SeqsUpTo(CyclRows, MaxTrialLen)}

\* The first lines of a CYCL file, starting at time 0 or later.
ShortCyclFiles ==
    {FileOf(rows, first) : rows \in SeqsUpTo(CyclRows, MaxShortLen), first \in {0, 1}}

SensorFiles ==
    {FileOf(rows, first) : rows \in SeqsUpTo(SensorRows, MaxShortLen), first \in {0, 1}}

FilesOf(kind) ==
    CASE kind = "CoPData" -> CyclFiles
      [] kind = "ForceSensorData" -> SensorFiles
      [] OTHER -> ShortCyclFiles

(***************************************************************************)
(* Concatenation of two trials: A and B are read, R = A.concatenate(B),    *)
(* and rows are appended to R.                                             *)
(***************************************************************************)
InitConcat ==
    /\ arr = << >>
    /\ obj = << >>
    /\ exc = "none"
    /\ fed = << >>
    /\ env = << >>
    /\ call = "none"

\* A = <reader>(file), for a reader of any kind.
ReadA ==
    /\ "A" \notin DOMAIN obj
    /\ call = "none"
    /\ \E kind \in Kinds : \E file \in FilesOf(kind) :
          \E m \in {ReadTrialAs(Machine, "A", kind, file)} : Install(m)
    /\ fed' = fed
    /\ env' = env
    /\ call' = "read"

\* B = <reader>(file), for the reader A came from.
ReadB ==
    /\ "A" \in DOMAIN obj
    /\ "B" \notin DOMAIN obj
    /\ call = "read"
    /\ exc = "none"
    /\ \E file \in FilesOf(obj["A"].cls) :
          \E m \in {ReadTrialAs(Machine, "B", obj["A"].cls, file)} : Install(m)
    /\ fed' = fed
    /\ env' = env
    /\ call' = "read"

\* R = A.concatenate(B)
ConcatenateAB ==
    /\ {"A", "B"} \subseteq DOMAIN obj
    /\ "R" \notin DOMAIN obj
    /\ call = "read"
    /\ \E m \in {Concatenate(Machine, "A", "B", "R")} : Install(m)
    /\ fed' = fed
    /\ env' = env
    /\ call' = "concatenate"

\* The rows appended to R since it was returned.
ResultAppends ==
    NRows(Get(Machine, "R", "t")) - NRows(Get(Machine, "A", "t"))
        - NRows(Get(Machine, "B", "t"))

\* R.append(t, y)
AppendToResult ==
    /\ "R" \in DOMAIN obj
    /\ ResultAppends < MaxResultAppends
    /\ \E t \in NextTimes(Get(Machine, "R", "t")), v \in {1000, MAX_INT} :
          \E m \in {Collect(DataAppend(Machine, "R", t,
                                       [j \in 1..Get(Machine, "R", "y").shape[2] |-> v]),
                            {})} : Install(m)
    /\ fed' = fed
    /\ env' = env
    /\ call' = "append"

NextConcat == ReadA \/ ReadB \/ ConcatenateAB \/ AppendToResult

SpecConcat == InitConcat /\ [][NextConcat]_vars

(***************************************************************************)
(* Concatenation of several trials, left to right: the trials are read     *)
(* with read_cycl_data, out starts as the first of them, and each step     *)
(* rebinds out to out.concatenate(next trial).                             *)
(***************************************************************************)
\* The name of the i-th trial and of the result of folding it in.
Trial(i) == <<"T1", "T2", "T3", "T4">>[i]

Folded(i) == <<"T1", "O2", "O3", "O4">>[i]

\* The trials read so far.
TrialsRead == Cardinality({i \in 1..(MaxTrials + 1) : Trial(i) \in DOMAIN obj})

InitFold ==
    /\ arr = << >>
    /\ obj = << >>
    /\ exc = "none"
    /\ fed = << >>
    /\ env = << >>
    /\ call = "none"

\* cycl_data.append(DataReader.read_cycl_data(file))
ReadTrialFold ==
    /\ call \in {"none", "read"}
    /\ exc = "none"
    /\ TrialsRead < MaxTrials
    /\ \E file \in CyclFiles :
          \E m \in {ReadTrialAs(Machine, Trial(TrialsRead + 1), "CoPData", file)} :
              Install(m)
    /\ fed' = fed
    /\ env' = env
    /\ call' = "read"

\* out = data[0], i the index of the next trial to fold in.
StartFold ==
    /\ call = "read"
    /\ exc = "none"
    /\ TrialsRead = MaxTrials
    /\ env' = [out |-> Trial(1), i |-> 2]
    /\ UNCHANGED <<arr, obj, exc, fed>>
    /\ call' = "fold"

\* out = out.concatenate(data[i]): the series out named before is dropped
\* unless it is the first trial.
FoldInto(m, out, i) ==
    Bind(Concatenate(m, out, Trial(i), Folded(i)), LAMBDA r :
        IF r.exc # "none" THEN r ELSE Collect(r, {out} \ {Trial(1)}))

FoldStep ==
    /\ call \in {"fold", "fold step"}
    /\ exc = "none"
    /\ env.i <= MaxTrials
    /\ \E m \in {FoldInto(Machine, env.out, env.i)} :
          /\ Install(m)
          /\ env' = IF m.exc = "none" THEN [out |-> Folded(env.i), i |-> env.i + 1]
                    ELSE env
    /\ fed' = fed
    /\ call' = "fold step"

NextFold == ReadTrialFold \/ StartFold \/ FoldStep

SpecFold == InitFold /\ [][NextFold]_vars

(***************************************************************************)
(* The numeric helper _integral (helpers.integral is the same code).       *)
(***************************************************************************)
\* t[1:] - t[:-1]
TimeSteps(t) == [i \in 1..(IF Len(t) = 0 THEN 0 ELSE Len(t) - 1) |-> FSub(t[i + 1], t[i])]

\* (data[1:, :] + data[:-1, :]) / 2
PairMeans(rows) ==
    [i \in 1..(IF Len(rows) = 0 THEN 0 ELSE Len(rows) - 1) |->
        [j \in 1..Len(rows[i]) |-> FDiv(FAdd(rows[i + 1][j], rows[i][j]), Num(2))]]

\* rows.T, for rows of ncols columns.
Transpose(rows, ncols) == [j \in 1..ncols |-> [i \in 1..Len(rows) |-> rows[i][j]]]

\* steps * columns: steps broadcasts over the rows of columns, and an
\* operand of length one over the length of the other.
StepProducts(steps, columns, n) ==
    [j \in 1..Len(columns) |->
        [i \in 1..(IF n = 1 THEN Len(steps) ELSE n) |->
            FMul(steps[IF Len(steps) = 1 THEN 1 ELSE i],
                 columns[j][IF n = 1 THEN 1 ELSE i])]]

RECURSIVE SumSeq(_, _)
\* A mutant of NanSumSeq: np.sum in place of np.nansum, a NaN entry makes
\* the sum NaN.
SumSeq(s, i) ==
    IF i > Len(s) THEN Num(0) ELSE FAdd(s[i], SumSeq(s, i + 1))

RECURSIVE NanSumSeq(_, _)
\* The entries of s from i on added up, NaN counting as zero.
NanSumSeq(s, i) ==
    IF i > Len(s) THEN Num(0)
    ELSE FAdd(IF isnan(s[i]) THEN Num(0) ELSE s[i], NanSumSeq(s, i + 1))

RECURSIVE NanSum(_, _)
\* np.nansum of a 2-D array, from row j on.
NanSum(rows, j) ==
    IF j > Len(rows) THEN Num(0)
    ELSE FAdd(NanSumSeq(rows[j], 1), NanSum(rows, j + 1))

\* np.nansum(steps * means.T); numpy raises ValueError when the two lengths
\* differ and neither is 1.
SumOfProducts(steps, means, ncols) ==
    IF Len(steps) # Len(means) /\ Len(steps) # 1 /\ Len(means) # 1
    THEN [exc |-> "ValueError", value |-> NaN]
    ELSE [exc |-> "none",
          value |-> NanSum(StepProducts(steps, Transpose(means, ncols), Len(means)), 1)]

\* _integral(t, data): [exc, value].
Integral(t, data) ==
    SumOfProducts(TimeSteps(t.data), PairMeans(data.data), data.shape[2])

(***************************************************************************)
(* The two helpers on every small input: a time vector t with a uniform    *)
(* step, and as many rows of data, of one or two channels.                 *)
(***************************************************************************)
HelperRows ==
    [w \in {1, 2} |->
        IF w = 1 THEN {<<Num(0)>>, <<Num(3)>>, <<NaN>>}
        ELSE {<<Num(0), Num(3)>>, <<Num(3), Num(1)>>, <<NaN, Num(1)>>}]

\* n timestamps from `first` on, h apart.
UniformTimes(n, first, h) == [i \in 1..n |-> Num(first + (i - 1) * h)]

InitHelpers ==
    \E w \in {1, 2}, window \in {1, 2}, first \in {0, 1}, h \in {1, 2} :
        \E rows \in SeqsUpTo(HelperRows[w], MaxSamples) :
            /\ arr = << >>
            /\ obj = << >>
            /\ exc = "none"
            /\ fed = << >>
            /\ env = [t |-> Arr1(UniformTimes(Len(rows), first, h)),
                      data |-> Arr2(rows, w),
                      window |-> window,
                      out |-> << >>]
            /\ call = "none"

\* out = _derivative(t, data, window)
Differentiate ==
    /\ call = "none"
    /\ \E r \in {Derivative(env.t, env.data, env.window)} :
          /\ exc' = r.exc
          /\ env' = [env EXCEPT !.out = IF r.exc = "none" THEN r.value ELSE << >>]
    /\ UNCHANGED <<arr, obj, fed>>
    /\ call' = "_derivative"

\* out = _integral(t, data)
Integrate ==
    /\ call = "none"
    /\ \E r \in {Integral(env.t, env.data)} :
          /\ exc' = r.exc
          /\ env' = [env EXCEPT !.out = IF r.exc = "none" THEN r.value ELSE << >>]
    /\ UNCHANGED <<arr, obj, fed>>
    /\ call' = "_integral"

NextHelpers == Differentiate \/ Integrate

SpecHelpers == InitHelpers /\ [][NextHelpers]_vars

(***************************************************************************)
(* The per-segment metrics: properties of CoPData (data.py) and of         *)
(* ForceSensorData.  Each is [exc, value], value the tuple returned.       *)
(***************************************************************************)
\* zip(self.takeoffs_indices[1:], self.landings_indices[:-1]): the pairs
\* (t, l), as many as the shorter of the two slices holds.
MatPairs(takeoffs, landings) ==
    [k \in 1..NFlights(DropFirst(takeoffs, 1), DropLast(landings, 1)) |->
        [t |-> DropFirst(takeoffs, 1)[k], l |-> DropLast(landings, 1)[k]]]

\* The pairs of object o; reading an attribute o does not have raises
\* AttributeError.
MatPairsOf(m, o) ==
    IF {"takeoffs_indices", "landings_indices"} \subseteq DOMAIN m.obj[o]
    THEN [exc |-> "none",
          value |-> MatPairs(Get(m, o, "takeoffs_indices").data,
                             Get(m, o, "landings_indices").data)]
    ELSE [exc |-> "AttributeError", value |-> << >>]

\* a[l:t] of a 1-D and of a 2-D array.
Cut1(a, l, t) == Arr1(Slice(a.data, l, t))

Cut2(a, l, t) == Arr2(Slice(a.data, l, t), a.shape[2])

\* tuple(entry for t, l in zip(...)): the entries, or the first exception
\* one of them raised.
TupleOf(entries) ==
    IF \E k \in 1..Len(entries) : entries[k].exc # "none"
    THEN [exc |-> entries[CHOOSE k \in 1..Len(entries) :
                              /\ entries[k].exc # "none"
                              /\ \A j \in 1..(k - 1) : entries[j].exc = "none"].exc,
          value |-> << >>]
    ELSE [exc |-> "none", value |-> [k \in 1..Len(entries) |-> entries[k].value]]

\* tuple(F(pair) for each pair of o), F giving [exc, value].
PerMatPair(m, o, F(_)) ==
    Bind(MatPairsOf(m, o), LAMBDA pairs :
        IF pairs.exc # "none" THEN pairs
        ELSE TupleOf([k \in 1..Len(pairs.value) |-> F(pairs.value[k])]))

\* CoPData.mat_times
mat_times(m, o) ==
    PerMatPair(m, o, LAMBDA p :
        [exc |-> "none",
         value |-> FSub(Get(m, o, "t").data[p.t + 1], Get(m, o, "t").data[p.l + 1])])

\* tuple(_integral(self.t[l:t], self.<f>[l:t]) for t, l in zip(...)):
\* displacement_integral, impulses, acceleration_integral, force_integral.
IntegralsOf(m, o, f) ==
    PerMatPair(m, o, LAMBDA p :
        Integral(Cut1(Get(m, o, "t"), p.l, p.t), Cut2(Get(m, o, f), p.l, p.t)))

\* The numbers among the entries of a 2-D array.
Numbers(rows) ==
    {rows[i][j] : i \in 1..Len(rows), j \in 1..(IF Len(rows) = 0 THEN 0 ELSE Len(rows[1]))}
        \ {NaN}

\* np.nanmax(a) - np.nanmin(a): ValueError on an array without entries, NaN
\* on one that holds NaN alone.
NanRange(a) ==
    IF Len(a.data) = 0 THEN [exc |-> "ValueError", value |-> NaN]
    ELSE IF Numbers(a.data) = {} THEN [exc |-> "none", value |-> NaN]
    ELSE [exc |-> "none",
          value |-> FSub(CHOOSE x \in Numbers(a.data) :
                             \A y \in Numbers(a.data) : ~FLess(x, y),
                         CHOOSE x \in Numbers(a.data) :
                             \A y \in Numbers(a.data) : ~FLess(y, x))]

\* tuple(np.nanmax(self.<f>[l:t]) - np.nanmin(self.<f>[l:t]) for t, l in
\* zip(...)): displacement_ranges, velocity_ranges, acceleration_ranges.
RangesOf(m, o, f) ==
    PerMatPair(m, o, LAMBDA p : NanRange(Cut2(Get(m, o, f), p.l, p.t)))

\* CoPData.flight_times, as a property read: [exc, value].
FlightTimesOf(m, o) ==
    IF {"takeoffs_indices", "landings_indices"} \subseteq DOMAIN m.obj[o]
    THEN [exc |-> "none", value |-> flight_times(m, o)]
    ELSE [exc |-> "AttributeError", value |-> << >>]

\* The per-segment metrics of a CoP series, by the name of the property.
CoPMetrics(m, o) ==
    [mat_times |-> mat_times(m, o),
     flight_times |-> FlightTimesOf(m, o),
     displacement_integral |-> IntegralsOf(m, o, "displacement"),
     displacement_ranges |-> RangesOf(m, o, "displacement"),
     impulses |-> IntegralsOf(m, o, "velocity"),
     velocity_ranges |-> RangesOf(m, o, "velocity"),
     acceleration_integral |-> IntegralsOf(m, o, "acceleration"),
     acceleration_ranges |-> RangesOf(m, o, "acceleration")]

\* The per-segment metric of a force series: ForceSensorData.force_integral.
ForceMetrics(m, o) == [force_integral |-> IntegralsOf(m, o, "y")]

\* Every per-segment metric the class of o has.
Metrics(m, o) ==
    IF m.obj[o].cls = "ForceSensorData" THEN ForceMetrics(m, o) ELSE CoPMetrics(m, o)

\* The exception reading the metrics ends with: that of a metric that raised.
Raised(metrics) ==
    IF \A n \in DOMAIN metrics : metrics[n].exc = "none" THEN "none"
    ELSE metrics[CHOOSE n \in DOMAIN metrics : metrics[n].exc # "none"].exc

(***************************************************************************)
(* One CoP recording of up to MaxRecordingLen lines, built into a CoP      *)
(* series S: by read_cycl_data, whose CoPData (data.py) segments the       *)
(* flights, or as the CoPData of cop_data.py, which holds the derived      *)
(* signals alone; or one short sensor file built into a force series.  The *)
(* per-segment metrics of the series are then read.                        *)
(***************************************************************************)
Recordings == {FileOf(rows, 0) : rows \in SeqsUpTo(CyclRows, MaxRecordingLen)}

InitCoP ==
    \E file \in Recordings \cup SensorFiles :
        /\ arr = << >>
        /\ obj = << >>
        /\ exc = "none"
        /\ fed = << >>
        /\ env = [file |-> file]
        /\ call = "none"

\* cop_data.CoPData(DataReader._read_csv(file, nb_sensors=2, ...))
SignalsOf(m, o, file) ==
    Then(ReadCyclSeries(m, "csv", file), LAMBDA m1 : CoPSignalsInit(m1, o, "csv"))

\* S = cop_data.CoPData(DataReader._read_csv(file, nb_sensors=2, ...))
BuildSignals ==
    /\ call = "none"
    /\ \E m \in {Bind(SignalsOf(Machine, "S", env.file), LAMBDA r :
                       Collect(r, IF r.exc # "none" THEN {"csv", "S"} ELSE {"csv"}))} :
          Install(m)
    /\ UNCHANGED <<fed, env>>
    /\ call' = "cop_data.CoPData"

\* S = DataReader.read_cycl_data(file)
ReadRecording ==
    /\ call = "none"
    /\ \E m \in {ReadTrialAs(Machine, "S", "CoPData", env.file)} : Install(m)
    /\ UNCHANGED <<fed, env>>
    /\ call' = "read_cycl_data"

\* S = ForceSensorData(DataReader.read_sensor_data(file)), of a short file.
ReadForce ==
    /\ call = "none"
    /\ Len(env.file) <= MaxShortLen
    /\ \E m \in {ReadTrialAs(Machine, "S", "ForceSensorData", env.file)} : Install(m)
    /\ UNCHANGED <<fed, env>>
    /\ call' = "ForceSensorData"

\* The per-segment metrics of S are read, as main does for the figure titles.
ReadMetrics ==
    /\ call \in {"read_cycl_data", "ForceSensorData"}
    /\ exc = "none"
    /\ \E metrics \in {Metrics(Machine, "S")} :
          /\ env' = [file |-> env.file, metrics |-> metrics]
          /\ exc' = Raised(metrics)
    /\ UNCHANGED <<arr, obj, fed>>
    /\ call' = "metrics"

\* S = DataReader.read_sensor_data(file), of a short file; an empty file
\* gives None.
ReadRaw ==
    /\ call = "none"
    /\ Len(env.file) <= MaxShortLen
    /\ \E m \in {Collect(ReadSensorData(Machine, "S", env.file), {})} : Install(m)
    /\ UNCHANGED <<fed, env>>
    /\ call' = "read_sensor_data"

\* F = ForceSensorData(S), S the raw series the caller holds.
WrapForce ==
    /\ call = "read_sensor_data"
    /\ exc = "none"
    /\ "S" \in DOMAIN obj
    /\ \E m \in {Collect(ForceSensorDataInit(Machine, "F", "S"), {})} : Install(m)
    /\ UNCHANGED <<fed, env>>
    /\ call' = "ForceSensorData(S)"

NextCoP ==
    BuildSignals \/ ReadRecording \/ ReadForce \/ ReadMetrics \/ ReadRaw \/ WrapForce

SpecCoP == InitCoP /\ [][NextCoP]_vars

(***************************************************************************)
(* Claims about the segmenter (under SpecSeg).                             *)
(***************************************************************************)
Segmented == call = "_compute_timings_indices"

Returned == Segmented /\ exc = "none"

Signal == [i \in 1..NRows(Get(Machine, "S", "displacement")) |->
              Get(Machine, "S", "displacement").data[i][1]]

Takeoffs(o) == Get(Machine, o, "takeoffs_indices").data

Landings(o) == Get(Machine, o, "landings_indices").data

\* C1: on every gap signal the segmenter either returns a takeoff list and a
\* landing list of equal length, or raises the count-mismatch error; it fails
\* in no other way.
C1_ReturnsOrMismatch ==
    Segmented =>
        \/ exc = "none" /\ Len(Takeoffs("S")) = Len(Landings("S"))
        \/ exc = "RuntimeError"

\* C2: whenever the segmenter returns, takeoffs[k] < landings[k] for every k
\* and landings[k] < takeoffs[k+1] for every k with a following flight, so
\* both lists are strictly increasing.
C2_StrictAlternation ==
    Returned =>
        /\ Len(Takeoffs("S")) = Len(Landings("S"))
        /\ \A k \in 1..Len(Takeoffs("S")) :
              /\ Takeoffs("S")[k] < Landings("S")[k]
              /\ k < Len(Takeoffs("S")) =>
                    /\ Landings("S")[k] < Takeoffs("S")[k + 1]
                    /\ Takeoffs("S")[k] < Takeoffs("S")[k + 1]
                    /\ Landings("S")[k] < Landings("S")[k + 1]

\* A returned segmentation with at least two flights.
C2_Witness == Returned /\ Len(Takeoffs("S")) >= 2

\* The 0-based first index of each NaN run, and the first valid index after
\* each run, of a signal.
RunStarts(signal) ==
    {i \in 0..(Len(signal) - 1) :
        isnan(signal[i + 1]) /\ (i = 0 \/ ~isnan(signal[i]))}

RunEnds(signal) ==
    {i \in 1..(Len(signal) - 1) : ~isnan(signal[i + 1]) /\ isnan(signal[i])}

\* A signal that begins and ends with valid samples and whose NaN runs all
\* start at index 2 or later.
ValidEnded(signal) ==
    /\ Len(signal) >= 1
    /\ ~isnan(signal[1])
    /\ ~isnan(signal[Len(signal)])
    /\ \A i \in RunStarts(signal) : i >= 2

Range(s) == {s[i] : i \in 1..Len(s)}

ExampleSignal == <<Num(1), Num(1), NaN, NaN, Num(1), Num(1), NaN, NaN, Num(1)>>

IsExample ==
    /\ Signal = ExampleSignal
    /\ Get(Machine, "S", "t").data = Timestamps(9, 0)

\* C5: on a signal that begins and ends with valid samples and whose NaN runs
\* all start at index >= 2, the segmenter returns the first index of each run
\* as takeoffs and the first valid index after each run as landings; the
\* signal [1,1,NaN,NaN,1,1,NaN,NaN,1] over 0..8 gives [2,6], [4,8] and
\* flight times (2, 2).
C5_RunsAreFlights ==
    (Segmented /\ ValidEnded(Signal)) =>
        /\ exc = "none"
        /\ Range(Takeoffs("S")) = RunStarts(Signal)
        /\ Len(Takeoffs("S")) = Cardinality(RunStarts(Signal))
        /\ Range(Landings("S")) = RunEnds(Signal)
        /\ Len(Landings("S")) = Cardinality(RunEnds(Signal))
        /\ IsExample =>
              /\ Takeoffs("S") = <<2, 6>>
              /\ Landings("S") = <<4, 8>>
              /\ flight_times(Machine, "S") = <<Num(2), Num(2)>>

\* The part of C5 the code keeps: the same, for signals with at least one NaN run.
C5_RunsAreFlightsWhenAny ==
    (Segmented /\ ValidEnded(Signal) /\ RunStarts(Signal) # {}) => C5_RunsAreFlights

\* The segmenter has run on the example signal of C5.
C5_ExampleReached == Segmented /\ IsExample

\* C6: segmenting a gap signal without any NaN, or one with zero samples,
\* returns two empty index lists and raises no error.
C6_NoGapGivesEmptyLists ==
    (Segmented /\ \A i \in 1..Len(Signal) : ~isnan(Signal[i])) =>
        /\ exc = "none"
        /\ Takeoffs("S") = << >>
        /\ Landings("S") = << >>

(***************************************************************************)
(* Claims about append (under Spec).                                       *)
(***************************************************************************)
\* C7: after any sequence of append calls, every input value equal to the
\* sentinel 2147483647 is stored in y as NaN, whatever the conversion
\* factor, every other input value v is stored as v * conversion_factor, and
\* the rows of y are in the order they were appended.
C7_SentinelIsNaN ==
    \A o \in DOMAIN fed \cap DOMAIN obj :
        LET y == Get(Machine, o, "y").data
        IN  /\ Len(y) = Len(fed[o])
            /\ \A i \in 1..Len(fed[o]) :
                  /\ Len(y[i]) = Len(fed[o][i])
                  /\ \A j \in 1..Len(fed[o][i]) :
                        IF fed[o][i][j] = MAX_INT
                        THEN isnan(y[i][j])
                        ELSE y[i][j] = FMul(Num(fed[o][i][j]), obj[o].conversion_factor)

\* Two rows were appended under the factor 1/1000, with a sentinel and a
\* valid reading among them.
C7_Witness ==
    /\ call = "append"
    /\ exc = "none"
    /\ obj["D"].conversion_factor = Frac(1, 1000)
    /\ Len(fed["D"]) >= 2
    /\ \E i \in 1..Len(fed["D"]) : \E j \in 1..Len(fed["D"][i]) :
          fed["D"][i][j] = MAX_INT
    /\ \E i \in 1..Len(fed["D"]) : \E j \in 1..Len(fed["D"][i]) :
          fed["D"][i][j] # MAX_INT

\* C8: in every state reached by append calls, rejected ones included, t has
\* as many timestamps as y has rows and the channel width is what it was; a
\* rejected append leaves the series as it was.
C8_RowsMatchTimestamps ==
    [][AppendRow =>
          /\ NRows(Get(Machine, "D", "t"))' = NRows(Get(Machine, "D", "y"))'
          /\ Get(Machine, "D", "y").shape[2]' = Get(Machine, "D", "y").shape[2]
          /\ exc' # "none" => View(Machine, "D")' = View(Machine, "D")]_vars

(***************************************************************************)
(* Claims about concatenate (under SpecConcat).                            *)
(***************************************************************************)
Concatenated == call = "concatenate" /\ {"A", "B"} \subseteq DOMAIN obj

\* C3: for segmented CoP series A and B, A.concatenate(B) returns a series
\* whose takeoff list and landing list both hold exactly fA + fB flights,
\* whether or not the joined signal has an extra flight at the junction.
C3_FlightsAddUp ==
    (Concatenated /\ obj["A"].cls = "CoPData") =>
        /\ exc = "none"
        /\ Len(Takeoffs("R")) = Len(Takeoffs("A")) + Len(Takeoffs("B"))
        /\ Len(Landings("R")) = Len(Landings("A")) + Len(Landings("B"))

\* C9: for a non-empty series A of n samples and any series B of m samples,
\* A.concatenate(B) returns a series of n + m samples whose t is A.t followed
\* by A.t[n-1] + B.t[j] for each j, and whose rows are A.y followed by B.y
\* unmodified.
C9_ConcatenatedSeries ==
    (Concatenated /\ NRows(Get(Machine, "A", "t")) >= 1) =>
        /\ exc = "none"
        /\ NRows(Get(Machine, "R", "t"))
               = NRows(Get(Machine, "A", "t")) + NRows(Get(Machine, "B", "t"))
        /\ NRows(Get(Machine, "R", "y")) = NRows(Get(Machine, "R", "t"))
        /\ Get(Machine, "R", "t").data
               = Get(Machine, "A", "t").data
                     \o [j \in 1..NRows(Get(Machine, "B", "t")) |->
                            FAdd(Get(Machine, "A", "t").data[NRows(Get(Machine, "A", "t"))],
                                 Get(Machine, "B", "t").data[j])]
        /\ Get(Machine, "R", "y").data
               = Get(Machine, "A", "y").data \o Get(Machine, "B", "y").data

\* A concatenation returned for two non-empty operands, the first of which
\* ends after time 0 and the second of which starts after time 0.
C9_Witness ==
    /\ Concatenated
    /\ exc = "none"
    /\ NRows(Get(Machine, "A", "t")) >= 2
    /\ NRows(Get(Machine, "B", "t")) >= 2
    /\ Get(Machine, "B", "t").data[1] # Num(0)

\* C10: concatenate mutates neither operand, whatever the class: across
\* A.concatenate(B), and across every later append to its result, A's and
\* B's t, y, derived signals and takeoff and landing lists stay what they
\* were.
C10_OperandsUntouched ==
    [][(call' \in {"concatenate", "append"} /\ {"A", "B"} \subseteq DOMAIN obj) =>
          /\ {"A", "B"} \subseteq DOMAIN obj'
          /\ View(Machine, "A")' = View(Machine, "A")
          /\ View(Machine, "B")' = View(Machine, "B")]_vars

\* A row was appended to the concatenation of two CoP series.
C10_Witness ==
    /\ call = "append"
    /\ exc = "none"
    /\ "R" \in DOMAIN obj
    /\ obj["R"].cls = "CoPData"
    /\ NRows(Get(Machine, "R", "t"))
           > NRows(Get(Machine, "A", "t")) + NRows(Get(Machine, "B", "t"))

(***************************************************************************)
(* Claims about folding several trials (under SpecFold).                   *)
(***************************************************************************)
\* C4: when three or more trials are concatenated left to right, every step
\* returns a series whose flight count is the stored flight count of the
\* prefix plus the flight count of the trial folded in, in the takeoff list
\* and in the landing list.
C4_FoldPreservesTotal ==
    [][FoldStep =>
          /\ exc' = "none"
          /\ Len(Takeoffs(env.out))' =
                 Len(Takeoffs(env.out)) + Len(Takeoffs(Trial(env.i)))
          /\ Len(Landings(env.out))' =
                 Len(Landings(env.out)) + Len(Landings(Trial(env.i)))]_vars

(***************************************************************************)
(* Claims about the numeric helpers (under SpecHelpers).                   *)
(***************************************************************************)
Differentiated == call = "_derivative"

\* The input rows and timestamps, and the number of rows.
InRows == env.data.data

InTimes == env.t.data

NoNaNInput == \A i \in 1..Len(InRows) : \A j \in 1..Len(InRows[i]) : ~isnan(InRows[i][j])

\* C11: for an N-row input without NaN, N > 2*window, over strictly
\* increasing t, the derivative returns N rows; the first window and the last
\* window rows are NaN, and every row i between them (0-based,
\* window <= i < N - window) is (data[i-window] - data[i+window]) /
\* (t[i-window] - t[i+window]) in each channel: N - 2*window numeric rows.
C11_DerivativeRows ==
    (Differentiated /\ NoNaNInput /\ Len(InRows) > 2 * env.window) =>
        /\ exc = "none"
        /\ NRows(env.out) = Len(InRows)
        /\ Len(env.out.data) = Len(InRows)
        /\ \A r \in 1..Len(InRows) : \A j \in 1..env.data.shape[2] :
              IF r <= env.window \/ r > Len(InRows) - env.window
              THEN isnan(env.out.data[r][j])
              ELSE /\ ~isnan(env.out.data[r][j])
                   /\ env.out.data[r][j] =
                          FDiv(FSub(InRows[r - env.window][j], InRows[r + env.window][j]),
                               FSub(InTimes[r - env.window], InTimes[r + env.window]))

\* A derivative of window 2 was taken of a two-channel input without NaN
\* that has interior rows, one of them not zero.
C11_Witness ==
    /\ Differentiated
    /\ NoNaNInput
    /\ env.window = 2
    /\ env.data.shape[2] = 2
    /\ Len(InRows) > 4
    /\ \E j \in 1..2 : env.out.data[3][j] \notin {NaN, Num(0)}

\* C12: when data has fewer than 2*window + 1 rows, the derivative either
\* raises an error or returns an all-NaN array with as many rows as data;
\* the row count of what it returns never differs from the input's.
C12_ShortInputKeepsRows ==
    (Differentiated /\ Len(InRows) < 2 * env.window + 1) =>
        \/ exc # "none"
        \/ /\ NRows(env.out) = Len(InRows)
           /\ \A r \in 1..Len(env.out.data) : \A j \in 1..Len(env.out.data[r]) :
                 isnan(env.out.data[r][j])

Integrated == call = "_integral"

\* One trapezoid: (t[i+1] - t[i]) * (data[i] + data[i+1]) / 2 in channel j,
\* or zero when it contains a NaN.
Trapezoid(i, j) ==
    IF isnan(InRows[i][j]) \/ isnan(InRows[i + 1][j]) \/ isnan(InTimes[i])
           \/ isnan(InTimes[i + 1])
    THEN Num(0)
    ELSE FMul(FSub(InTimes[i + 1], InTimes[i]),
              FDiv(FAdd(InRows[i][j], InRows[i + 1][j]), Num(2)))

RECURSIVE TrapezoidsFrom(_, _)
\* The trapezoids of the pairs i, i+1, ... in every channel, from channel j
\* of pair i on, added up.
TrapezoidsFrom(i, j) ==
    IF i >= Len(InRows) THEN Num(0)
    ELSE IF j > env.data.shape[2] THEN TrapezoidsFrom(i + 1, 1)
    ELSE FAdd(Trapezoid(i, j), TrapezoidsFrom(i, j + 1))

\* The input is one channel holding the same number in every row.
ConstantSignal ==
    /\ env.data.shape[2] = 1
    /\ Len(InRows) >= 1
    /\ ~isnan(InRows[1][1])
    /\ \A i \in 1..Len(InRows) : InRows[i][1] = InRows[1][1]

\* C13: integral(t, data) is the sum over consecutive sample pairs and over
\* all channels of (t[i+1] - t[i]) * (data[i] + data[i+1]) / 2, a term that
\* contains a NaN counting as zero; a constant one-channel signal c at a
\* uniform step h over n intervals gives c*h*n, and fewer than two samples
\* give 0.
C13_TrapezoidSum ==
    Integrated =>
        /\ exc = "none"
        /\ env.out = TrapezoidsFrom(1, 1)
        /\ Len(InRows) < 2 => env.out = Num(0)
        /\ (ConstantSignal /\ Len(InRows) >= 2) =>
               env.out = FMul(FMul(InRows[1][1], FSub(InTimes[2], InTimes[1])),
                              Num(Len(InRows) - 1))

\* An integral over two channels came out non-zero although a sample is NaN.
C13_Witness ==
    /\ Integrated
    /\ env.data.shape[2] = 2
    /\ ~NoNaNInput
    /\ env.out \notin {Num(0), NaN}

(***************************************************************************)
(* Claims about the CoP derived signals (under SpecCoP).                   *)
(***************************************************************************)
\* The recording has been built into a CoP series, by either constructor.
Built == call \in {"cop_data.CoPData", "read_cycl_data"}

\* Line i (from 1) of the recording holds no position.
Invalid(i) == \E j \in 1..Len(env.file[i].row) : env.file[i].row[j] = MAX_INT

AllValid == \A i \in 1..Len(env.file) : ~Invalid(i)

\* Signal f of S has as many rows as the recording has lines, NaN in the
\* first and last `pad` of them and a number in every other one.
PaddedBy(f, pad) ==
    /\ NRows(Get(Machine, "S", f)) = Len(env.file)
    /\ \A r \in 1..NRows(Get(Machine, "S", f)) :
          isnan(Get(Machine, "S", f).data[r][1])
              <=> (r <= pad \/ r > Len(env.file) - pad)

\* C14: for every CoP series of N >= 0 samples whose raw positions are all
\* valid, displacement, velocity and acceleration each have exactly N rows,
\* NaN in the first two and the last two (the window) and a number in every
\* other row.
C14_SignalsPaddedByWindow ==
    (Built /\ AllValid) =>
        /\ exc = "none"
        /\ "S" \in DOMAIN obj
        /\ PaddedBy("displacement", CoPWindow)
        /\ PaddedBy("velocity", CoPWindow)
        /\ PaddedBy("acceleration", CoPWindow)

(***************************************************************************)
(* Claims about the per-segment metrics (under SpecCoP).                   *)
(***************************************************************************)
MetricsRead == call = "metrics"

\* The signal a metric is computed from; mat_times has none.
SignalOf(n) ==
    CASE n \in {"displacement_integral", "displacement_ranges"} -> "displacement"
      [] n \in {"impulses", "velocity_ranges"} -> "velocity"
      [] n \in {"acceleration_integral", "acceleration_ranges"} -> "acceleration"
      [] OTHER -> "y"

\* Entry k of metric n, computed over the samples [landings[k], takeoffs[k+1])
\* (k from 1; the lists hold 0-based sample indices).
OverMatPhase(n, k) ==
    CASE n = "mat_times" ->
             FSub(Get(Machine, "S", "t").data[Takeoffs("S")[k + 1] + 1],
                  Get(Machine, "S", "t").data[Landings("S")[k] + 1])
      [] n \in {"displacement_ranges", "velocity_ranges", "acceleration_ranges"} ->
             NanRange(Cut2(Get(Machine, "S", SignalOf(n)),
                           Landings("S")[k], Takeoffs("S")[k + 1])).value
      [] OTHER ->
             Integral(Cut1(Get(Machine, "S", "t"), Landings("S")[k], Takeoffs("S")[k + 1]),
                      Cut2(Get(Machine, "S", SignalOf(n)),
                           Landings("S")[k], Takeoffs("S")[k + 1])).value

\* Metric n was returned with one entry per mat phase between two flights:
\* max(F - 1, 0) entries, as many as flight_times[1:] has.
PerMatPhase(n) ==
    /\ env.metrics[n].exc = "none"
    /\ Len(env.metrics[n].value)
           = (IF Len(Takeoffs("S")) = 0 THEN 0 ELSE Len(Takeoffs("S")) - 1)
    /\ Len(env.metrics[n].value) = Len(DropFirst(flight_times(Machine, "S"), 1))
    /\ \A k \in 1..Len(env.metrics[n].value) :
          env.metrics[n].value[k] = OverMatPhase(n, k)

\* C15: for a series with F flights every per-segment metric (displacement,
\* velocity and acceleration integral and range, force integral, mat_times)
\* has exactly max(F - 1, 0) entries, entry k computed over the samples
\* [landings[k], takeoffs[k+1]): as many entries as flight_times[1:].
C15_MetricsPerMatPhase ==
    MetricsRead => \A n \in DOMAIN env.metrics \ {"flight_times"} : PerMatPhase(n)

\* The part of C15 the code keeps: the same, for the metrics of a CoP series.
C15_CoPMetricsPerMatPhase ==
    (MetricsRead /\ obj["S"].cls = "CoPData") => C15_MetricsPerMatPhase

\* The metrics of a CoP series with three flights were read.
C15_ThreeFlights ==
    /\ MetricsRead
    /\ obj["S"].cls = "CoPData"
    /\ Len(Takeoffs("S")) = 3

(***************************************************************************)
(* Claims about ForceSensorData (under SpecCoP).                           *)
(***************************************************************************)
\* C16: constructing a ForceSensorData from a raw multi-channel series never
\* mutates the series the caller passed: after the construction it has the
\* channel width and the y values it had before.
C16_CallerSeriesUntouched ==
    [][WrapForce =>
          /\ Get(Machine, "S", "y").shape[2]' = Get(Machine, "S", "y").shape[2]
          /\ Get(Machine, "S", "y").data' = Get(Machine, "S", "y").data]_vars

(***************************************************************************)
(* Claims about the time vector and the mat intervals of a concatenation   *)
(* (under SpecConcat).                                                     *)
(***************************************************************************)
StrictlyIncreasing(t) ==
    \A i \in 1..(Len(t) - 1) : FLess(t[i], t[i + 1])

\* C17: if A and B each have strictly increasing timestamps, B's first
\* timestamp being any value >= 0 (0 included), the time vector of
\* A.concatenate(B) is strictly increasing, across the junction too.
C17_TimeStrictlyIncreasing ==
    (/\ Concatenated
     /\ exc = "none"
     /\ StrictlyIncreasing(Get(Machine, "A", "t").data)
     /\ StrictlyIncreasing(Get(Machine, "B", "t").data)) =>
        StrictlyIncreasing(Get(Machine, "R", "t").data)

\* The CoP series among A, B and R that hold a segmentation.
SegmentedSeries ==
    {o \in {"A", "B", "R"} \cap DOMAIN obj :
        /\ obj[o].cls = "CoPData"
        /\ {"displacement", "takeoffs_indices", "landings_indices"} \subseteq DOMAIN obj[o]}

\* No sample of o's gap signal inside a mat interval [landings[k],
\* takeoffs[k+1]) is NaN (the lists hold 0-based sample indices).
PureGroundContact(o) ==
    \A k \in 1..Len(MatPairsOf(Machine, o).value) :
        \A i \in MatPairsOf(Machine, o).value[k].l .. (MatPairsOf(Machine, o).value[k].t - 1) :
            /\ i + 1 \in 1..NRows(Get(Machine, o, "displacement"))
            /\ ~isnan(Get(Machine, o, "displacement").data[i + 1][1])

\* C18: in every series produced by segmentation or by concatenate, each mat
\* interval [landings[k], takeoffs[k+1]) used for the per-segment metrics is
\* pure ground contact: no sample of the gap signal inside it is NaN.
C18_MatIntervalsOnGround ==
    \A o \in SegmentedSeries : PureGroundContact(o)

\* The same for the series the segmenter itself produced.
C18_SegmentedOnGround ==
    \A o \in SegmentedSeries \ {"R"} : PureGroundContact(o)

\* Two series of one flight each were concatenated.
C18_Witness ==
    /\ Concatenated
    /\ exc = "none"
    /\ "R" \in SegmentedSeries
    /\ Len(Takeoffs("A")) = 1
    /\ Len(Takeoffs("B")) = 1

(***************************************************************************)
(* Claims about the flights of a recording (under SpecCoP).                *)
(***************************************************************************)
\* The maximal runs [a, b) of invalid raw rows of the recording, as 0-based
\* sample indices.
RawRuns ==
    {r \in (0..Len(env.file)) \X (0..Len(env.file)) :
        /\ r[1] < r[2]
        /\ \A i \in (r[1] + 1)..r[2] : Invalid(i)
        /\ r[1] = 0 \/ ~Invalid(r[1])
        /\ r[2] = Len(env.file) \/ ~Invalid(r[2] + 1)}

\* Run r lies at least 5 valid samples away from both ends of the recording
\* and from every other run.
Isolated(r) ==
    /\ r[1] >= 5
    /\ Len(env.file) - r[2] >= 5
    /\ \A q \in RawRuns \ {r} : q[1] - r[2] >= 5 \/ r[1] - q[2] >= 5

Recorded == call = "read_cycl_data" /\ RawRuns # {} /\ \A r \in RawRuns : Isolated(r)

\* C19: for a CoP series (window 2), every maximal run [a, b) of invalid raw
\* rows that lies at least 5 valid samples away from both ends and from any
\* other run yields exactly one flight, with takeoff a - 2 and landing b + 2,
\* whatever its length; there are as many flights as such runs.
C19_OneFlightPerRun ==
    Recorded =>
        /\ exc = "none"
        /\ Len(Takeoffs("S")) = Cardinality(RawRuns)
        /\ Len(Landings("S")) = Cardinality(RawRuns)
        /\ {<<Takeoffs("S")[k], Landings("S")[k]>> : k \in 1..Len(Takeoffs("S"))}
               = {<<r[1] - 2, r[2] + 2>> : r \in RawRuns}

\* A recording with one isolated run of one invalid row was segmented.
C19_Witness ==
    /\ Recorded
    /\ exc = "none"
    /\ \E r \in RawRuns : r[2] - r[1] = 1

=============================================================================
